---- MODULE Spec2Model ----
(***************************************************************************)
(* Model of the Safe Ocean Project app's API access layer                  *)
(* (src/src/services/ApiService.js), of the hazard report form             *)
(* (src/unnamed/part_001, ReportHazardScreen), of the app's login form     *)
(* (src/unnamed/part_000, App) and of the screen it shows to a logged-in   *)
(* user (src/WeatherScreen.js).                                            *)
(*                                                                         *)
(* JavaScript values are tagged records; the text AsyncStorage holds is a  *)
(* sequence of JSON tokens, so JSON.stringify and JSON.parse are real      *)
(* conversions.  Every await is a point where other handlers may run: a    *)
(* client call is a record that moves through the positions of its async   *)
(* function.  AsyncStorage executes its operations one at a time in the    *)
(* order they were issued, so an operation takes effect where it is issued *)
(* and its result is delivered to the awaiting function in a later step.   *)
(* Of the calls that have settled only the last is kept, with its result:  *)
(* every call is that one in the state its settling leads to.              *)
(***************************************************************************)
EXTENDS Integers, Sequences, FiniteSets, TLC

VARIABLES
    storage,      \* AsyncStorage: the item under the key 'user'
    calls,        \* the ApiService calls under way, in order of issue
    done,         \* the call that settled last, with its result
    issued,       \* the number of calls issued so far
    lastAuth,     \* history: the last write of the session, by a login or a logout
    screen,       \* ReportHazardScreen's component state
    app,          \* App's component state, and its fetch under way
    weather       \* WeatherScreen's component state

vars == <<storage, calls, done, issued, lastAuth, screen, app, weather>>

\* ------------------------------------------------------------------ bounds

MaxCalls == 3       \* ApiService calls made in one behaviour
MaxInFlight == 2    \* calls that have not returned yet, at any time

\* ------------------------------------------------------- JavaScript values

Undefined == [t |-> "undefined"]
Null == [t |-> "null"]
Str(s) == [t |-> "string", s |-> s]
Num(n) == [t |-> "number", n |-> n]
\* an object: its properties in insertion order, each [k |-> name, v |-> value]
Obj(props) == [t |-> "object", o |-> props]
Prop(k, v) == [k |-> k, v |-> v]

\* obj.key (undefined when the property is missing or obj holds no properties)
Get(obj, key) ==
    IF obj.t # "object" THEN Undefined
    ELSE IF \E i \in 1..Len(obj.o) : obj.o[i].k = key
         THEN obj.o[CHOOSE i \in 1..Len(obj.o) : obj.o[i].k = key].v
         ELSE Undefined

\* JavaScript truthiness
Truthy(v) ==
    CASE v.t = "undefined" -> FALSE
      [] v.t = "null" -> FALSE
      [] v.t = "string" -> v.s # ""
      [] v.t = "number" -> v.n # 0
      [] v.t = "text" -> v.c # << >>
      [] OTHER -> TRUE

\* ------------------------------------------------------------ JSON text

P(c) == [p |-> c]            \* punctuation or the literal null
S(s) == [s |-> s]            \* a string literal
N(n) == [n |-> n]            \* a number literal

IsPrimTok(tok) == DOMAIN tok = {"s"} \/ DOMAIN tok = {"n"} \/ tok = P("null")

PrimOfTok(tok) ==
    IF DOMAIN tok = {"s"} THEN Str(tok.s)
    ELSE IF DOMAIN tok = {"n"} THEN Num(tok.n)
    ELSE Null

TokOfPrim(v) ==
    CASE v.t = "string" -> S(v.s)
      [] v.t = "number" -> N(v.n)
      [] OTHER -> P("null")

RECURSIVE StringifyProps(_)
StringifyProps(props) ==
    IF props = << >> THEN << >>
    ELSE <<S(Head(props).k), P(":"), TokOfPrim(Head(props).v)>>
         \o (IF Tail(props) = << >> THEN << >> ELSE <<P(",")>>)
         \o StringifyProps(Tail(props))

\* JSON.stringify of a primitive or of an object of primitives
JSONstringify(v) ==
    IF v.t = "object" THEN <<P("{")>> \o StringifyProps(v.o) \o <<P("}")>>
    ELSE <<TokOfPrim(v)>>

\* the properties between the braces: name : value , name : value ...
RECURSIVE ParseProps(_)
ParseProps(toks) ==
    IF Len(toks) >= 3 /\ DOMAIN toks[1] = {"s"} /\ toks[2] = P(":") /\ IsPrimTok(toks[3])
    THEN LET first == Prop(toks[1].s, PrimOfTok(toks[3]))
         IN  IF Len(toks) = 3 THEN [ok |-> TRUE, props |-> <<first>>]
             ELSE IF toks[4] = P(",")
                  THEN LET rest == ParseProps(SubSeq(toks, 5, Len(toks)))
                       IN  IF rest.ok
                           THEN [ok |-> TRUE, props |-> <<first>> \o rest.props]
                           ELSE [ok |-> FALSE, props |-> << >>]
                  ELSE [ok |-> FALSE, props |-> << >>]
    ELSE [ok |-> FALSE, props |-> << >>]

\* JSON.parse: [ok |-> TRUE, v |-> value], or ok = FALSE where it throws SyntaxError
JSONparse(text) ==
    IF Len(text) = 1 /\ IsPrimTok(text[1]) THEN [ok |-> TRUE, v |-> PrimOfTok(text[1])]
    ELSE IF Len(text) >= 2 /\ text[1] = P("{") /\ text[Len(text)] = P("}")
         THEN IF Len(text) = 2 THEN [ok |-> TRUE, v |-> Obj(<< >>)]
              ELSE LET r == ParseProps(SubSeq(text, 2, Len(text) - 1))
                   IN  IF r.ok THEN [ok |-> TRUE, v |-> Obj(r.props)]
                       ELSE [ok |-> FALSE, v |-> Undefined]
         ELSE [ok |-> FALSE, v |-> Undefined]

\* ---------------------------------------------------------- AsyncStorage

NoItem == [has |-> FALSE, text |-> << >>]       \* getItem resolves to null
Item(text) == [has |-> TRUE, text |-> text]

\* `userString ? ... : ...`: null and the empty string are falsy
TruthyItem(item) == item.has /\ item.text # << >>

\* ------------------------------------------------- the backend (external)

UserA ==
    Obj(<<Prop("id", Num(1)), Prop("name", Str("ann")),
          Prop("email", Str("ann@sea.org")), Prop("token", Str("tokA"))>>)
UserB ==
    Obj(<<Prop("id", Num(2)), Prop("name", Str("bob")),
          Prop("email", Str("bob@sea.org")), Prop("token", Str("tokB"))>>)
\* the users POST /auth/login answers with: {id, name, email, token}
ServerUsers == {UserA, UserB}

\* a JavaScript string given by its characters (a weather query, a description)
Text(chars) == [t |-> "text", c |-> chars]

\* the location queries a caller passes to getWeather
Queries == {<<"A">>, <<"B">>}

\* encodeURIComponent: a space and a comma are escaped, letters and digits are kept
RECURSIVE encodeURIComponent(_)
encodeURIComponent(chars) ==
    IF chars = << >> THEN << >>
    ELSE (CASE Head(chars) = " " -> <<"%", "2", "0">>
            [] Head(chars) = "," -> <<"%", "2", "C">>
            [] OTHER -> <<Head(chars)>>)
         \o encodeURIComponent(Tail(chars))

\* the backend's decoding of the q parameter
RECURSIVE decodeURIComponent(_)
decodeURIComponent(chars) ==
    IF chars = << >> THEN << >>
    ELSE IF Len(chars) >= 3 /\ SubSeq(chars, 1, 3) = <<"%", "2", "0">>
         THEN <<" ">> \o decodeURIComponent(SubSeq(chars, 4, Len(chars)))
         ELSE IF Len(chars) >= 3 /\ SubSeq(chars, 1, 3) = <<"%", "2", "C">>
              THEN <<",">> \o decodeURIComponent(SubSeq(chars, 4, Len(chars)))
              ELSE <<Head(chars)>> \o decodeURIComponent(Tail(chars))

\* an HTTP response; status 0 stands for no response at all (a transport failure)
Response(status, data) == [status |-> status, data |-> data]
NetworkError == Response(0, Undefined)
NoResponse == Response(-1, Undefined)      \* nothing has come back yet
Is2xx(resp) == resp.status >= 200 /\ resp.status < 300

LoginResponses ==
    {Response(200, Obj(<<Prop("user", u)>>)) : u \in ServerUsers}
    \cup {Response(200, Obj(<<Prop("message", Str("ok"))>>)),
          Response(401, Obj(<<Prop("message", Str("Invalid credentials"))>>)),
          NetworkError}

RegisterResponses ==
    {Response(201, Obj(<<Prop("message", Str("User registered"))>>)),
     Response(422, Obj(<<Prop("message", Str("Email already in use"))>>)),
     Response(500, Str("")),      \* an error status with an empty body
     NetworkError}

WeatherResponses(q) ==
    {Response(200, Obj(<<Prop("location", Text(q)), Prop("temperature", Num(71))>>)),
     Response(404, Obj(<<Prop("message", Str("No weather data")), Prop("query", Text(q))>>)),
     NetworkError}

\* what the backend may answer to a request
ServerResponses(req) ==
    CASE req.url.path = "/auth/login" -> LoginResponses
      [] req.url.path = "/auth/register" -> RegisterResponses
      [] OTHER -> WeatherResponses(decodeURIComponent(req.url.q))

\* ------------------------------------------------------------ ApiService

API_BASE_URL == "http://192.168.0.100/php_api"

\* the methods class ApiService defines
ApiServiceMethods == {"login", "register", "logout", "getStoredUser", "getWeather"}

\* the methods that send a request through this.api
RequestOps == {"login", "register", "getWeather"}

Pending == [k |-> "pending"]
Return(v) == [k |-> "return", v |-> v]
Throw(v) == [k |-> "throw", v |-> v]
SyntaxError == [t |-> "error", name |-> "SyntaxError"]

NoHeader == Undefined
Bearer(token) == [t |-> "header", scheme |-> "Bearer", token |-> token]

NoRequest == [method |-> "none"]
Url(path, q) == [base |-> API_BASE_URL, path |-> path, q |-> q]

\* the interceptor reading the session's authToken, a property the stored user
\* does not have
AuthorizationOfAuthToken(item) ==
    IF TruthyItem(item)
    THEN LET user == JSONparse(item.text)
         IN  IF ~user.ok THEN [ok |-> FALSE, auth |-> NoHeader]
             ELSE IF Truthy(user.v) /\ Truthy(Get(user.v, "authToken"))
                  THEN [ok |-> TRUE, auth |-> Bearer(Get(user.v, "authToken"))]
                  ELSE [ok |-> TRUE, auth |-> NoHeader]
    ELSE [ok |-> TRUE, auth |-> NoHeader]

\* the request interceptor's header for the item getItem resolved to:
\* ok = FALSE when JSON.parse throws
Authorization(item) ==
    IF TruthyItem(item)
    THEN LET user == JSONparse(item.text)
         IN  IF ~user.ok THEN [ok |-> FALSE, auth |-> NoHeader]
             ELSE IF Truthy(user.v) /\ Truthy(Get(user.v, "token"))
                  THEN [ok |-> TRUE, auth |-> Bearer(Get(user.v, "token"))]
                  ELSE [ok |-> TRUE, auth |-> NoHeader]
    ELSE [ok |-> TRUE, auth |-> NoHeader]

\* the request each method hands to this.api
RequestOf(op, arg, auth) ==
    CASE op = "login" ->
            [method |-> "POST", url |-> Url("/auth/login", << >>), body |-> arg, auth |-> auth]
      [] op = "register" ->
            [method |-> "POST", url |-> Url("/auth/register", << >>), body |-> arg, auth |-> auth]
      [] OTHER ->
            [method |-> "GET", url |-> Url("/weather/get", encodeURIComponent(arg.c)),
             body |-> Undefined, auth |-> auth]

\* each method's fallback error
Fallback(op) ==
    CASE op = "login" -> Obj(<<Prop("message", Str("Login failed"))>>)
      [] op = "register" -> Obj(<<Prop("message", Str("Registration failed"))>>)
      [] OTHER -> Obj(<<Prop("message", Str("Failed to fetch weather"))>>)

\* a catch that throws its own message whatever the server said
ErrorValueOfFallback(resp, op) == Fallback(op)

\* `error.response?.data || fallback`: error.response is undefined when the
\* request got no response
ErrorValue(resp, op) ==
    IF resp.status > 0 /\ Truthy(resp.data) THEN resp.data ELSE Fallback(op)

\* the history a call is issued in: the last write of the session, by a login
\* that stored the user it was answered with or by a logout, and the item the
\* write replaced
NoAuth == [k |-> "none"]
LoggedIn(user, over) == [k |-> "login", user |-> user, over |-> over]
LoggedOut(over) == [k |-> "logout", over |-> over]

NoCall == [op |-> "none"]

\* a call as it is issued; ctx is the history it is issued in
NewCall(op, arg, pc, read) ==
    [op |-> op, arg |-> arg, pc |-> pc, read |-> read,
     req |-> NoRequest, sentAt |-> NoItem, resp |-> NoResponse, saved |-> NoItem,
     result |-> Pending, ctx |-> lastAuth]

CanCall == issued < MaxCalls /\ Len(calls) < MaxInFlight

Issue(call) ==
    /\ CanCall
    /\ calls' = Append(calls, call)
    /\ issued' = issued + 1

\* call c leaves with its result
Remove(c) == SubSeq(calls, 1, c - 1) \o SubSeq(calls, c + 1, Len(calls))

Settle(c, call) ==
    /\ calls' = Remove(c)
    /\ done' = [call EXCEPT !.pc = "done"]

Credentials == {Obj(<<Prop("email", Str("ann@sea.org")), Prop("password", Str("pw"))>>)}
UserData ==
    {Obj(<<Prop("name", Str("ann")), Prop("email", Str("ann@sea.org")),
           Prop("password", Str("pw"))>>)}

\* login(credentials): this.api.post runs the interceptor, which awaits getItem
login(credentials) ==
    /\ Issue(NewCall("login", credentials, "getItem", storage))
    /\ UNCHANGED <<storage, done, lastAuth, screen, app, weather>>

register(userData) ==
    /\ Issue(NewCall("register", userData, "getItem", storage))
    /\ UNCHANGED <<storage, done, lastAuth, screen, app, weather>>

getWeather(query) ==
    /\ Issue(NewCall("getWeather", Text(query), "getItem", storage))
    /\ UNCHANGED <<storage, done, lastAuth, screen, app, weather>>

\* a logout that clears only a session it can read
RemoveItemIfParsed(item) ==
    IF TruthyItem(item) /\ ~JSONparse(item.text).ok THEN item ELSE NoItem

\* what removeItem('user') leaves under the key
RemoveItem(item) == NoItem

\* logout(): removeItem('user') is issued, and awaited
logout ==
    /\ Issue(NewCall("logout", Undefined, "removeItem", NoItem))
    /\ storage' = RemoveItem(storage)
    /\ lastAuth' = LoggedOut(storage)
    /\ UNCHANGED <<done, screen, app, weather>>

\* getStoredUser(): getItem('user') is issued, and awaited
getStoredUser ==
    /\ Issue(NewCall("getStoredUser", Undefined, "getStoredItem", storage))
    /\ UNCHANGED <<storage, done, lastAuth, screen, app, weather>>

\* the config the interceptor of call c works on
Config(c) == calls[c]

\* the interceptor resumes with the item: it throws (and the method's catch
\* rethrows its fallback), or the request goes out with the header it set
interceptor(c) ==
    /\ calls[c].pc = "getItem"
    /\ LET h == Authorization(calls[c].read)
       IN  IF h.ok
           THEN /\ calls' = [calls EXCEPT ![c] =
                       [@ EXCEPT !.pc = "request", !.sentAt = storage, !.read = NoItem,
                                 !.req = RequestOf(Config(c).op, Config(c).arg, h.auth)]]
                /\ done' = done
           ELSE Settle(c, [calls[c] EXCEPT !.sentAt = storage, !.read = NoItem,
                                           !.result = Throw(Fallback(calls[c].op))])
    /\ UNCHANGED <<storage, issued, lastAuth, screen, app, weather>>

\* responses handed to whichever call is waiting
ArrivalsOfAny(c) ==
    UNION {ServerResponses(calls[i].req) : i \in {j \in 1..Len(calls) : calls[j].pc = "request"}}

\* the response a call's await of this.api settles with: what the backend answers
\* to the call's request, or a transport failure
Arrivals(c) == ServerResponses(calls[c].req)

\* what the method does with the response: return response.data, or throw from
\* its catch
Outcome(op, resp) ==
    IF Is2xx(resp) THEN Return(resp.data) ELSE Throw(ErrorValue(resp, op))

\* whether login saves: `response.data && response.data.user`
LoginSaves(resp) == Is2xx(resp) /\ Truthy(resp.data) /\ Truthy(Get(resp.data, "user"))

\* login saving response.data, not response.data.user
LoginItemOfData(resp) == Item(JSONstringify(resp.data))

\* the text login writes under 'user'
LoginItem(resp) == Item(JSONstringify(Get(resp.data, "user")))

\* a catch that drops the stored session when the login is refused
LoginCatchItemRemoved(resp, item) == IF Is2xx(resp) THEN item ELSE NoItem

\* what a login that does not save leaves under 'user': its catch only throws
LoginCatchItem(resp, item) == item

\* login resumes with the response: it issues setItem and awaits it, or returns
\* response.data, or throws from its catch
loginResume(c) ==
    /\ calls[c].op = "login" /\ calls[c].pc = "request"
    /\ \E resp \in Arrivals(c) :
          IF LoginSaves(resp)
          THEN /\ storage' = LoginItem(resp)
               /\ calls' = [calls EXCEPT ![c] =
                      [@ EXCEPT !.pc = "setItem", !.resp = resp, !.saved = storage',
                                !.sentAt = NoItem]]
               /\ lastAuth' = LoggedIn(Get(resp.data, "user"), storage)
               /\ done' = done
          ELSE /\ storage' = LoginCatchItem(resp, storage)
               /\ lastAuth' = lastAuth
               /\ Settle(c, [calls[c] EXCEPT !.resp = resp, !.sentAt = NoItem,
                                            !.result = Outcome("login", resp)])
    /\ UNCHANGED <<issued, screen, app, weather>>

\* setItem has resolved: login returns response.data
loginReturn(c) ==
    /\ calls[c].op = "login" /\ calls[c].pc = "setItem"
    /\ Settle(c, [calls[c] EXCEPT !.result = Return(calls[c].resp.data)])
    /\ UNCHANGED <<storage, issued, lastAuth, screen, app, weather>>

\* a register that saves what it is answered with, as login does
RegisterItemSaved(resp, item) ==
    IF Is2xx(resp) /\ Truthy(resp.data) THEN Item(JSONstringify(resp.data)) ELSE item

\* what register leaves under 'user' when its response arrives
RegisterItem(resp, item) == item

registerResume(c) ==
    /\ calls[c].op = "register" /\ calls[c].pc = "request"
    /\ \E resp \in Arrivals(c) :
          /\ Settle(c, [calls[c] EXCEPT !.resp = resp, !.sentAt = NoItem,
                                       !.result = Outcome("register", resp)])
          /\ storage' = RegisterItem(resp, storage)
    /\ UNCHANGED <<issued, lastAuth, screen, app, weather>>

getWeatherResume(c) ==
    /\ calls[c].op = "getWeather" /\ calls[c].pc = "request"
    /\ \E resp \in Arrivals(c) :
          Settle(c, [calls[c] EXCEPT !.resp = resp, !.sentAt = NoItem,
                                    !.result = Outcome("getWeather", resp)])
    /\ UNCHANGED <<storage, issued, lastAuth, screen, app, weather>>

\* removeItem has resolved: logout returns
logoutReturn(c) ==
    /\ calls[c].op = "logout" /\ calls[c].pc = "removeItem"
    /\ Settle(c, [calls[c] EXCEPT !.result = Return(Undefined)])
    /\ UNCHANGED <<storage, issued, lastAuth, screen, app, weather>>

\* `userString ? JSON.parse(userString) : null`
StoredUser(item) ==
    IF TruthyItem(item)
    THEN LET user == JSONparse(item.text)
         IN  IF user.ok THEN Return(user.v) ELSE Throw(SyntaxError)
    ELSE Return(Null)

\* getItem has resolved: getStoredUser returns the parsed user, or null, or throws
getStoredUserReturn(c) ==
    /\ calls[c].op = "getStoredUser" /\ calls[c].pc = "getStoredItem"
    /\ Settle(c, [calls[c] EXCEPT !.result = StoredUser(calls[c].read)])
    /\ UNCHANGED <<storage, issued, lastAuth, screen, app, weather>>

\* ------------------------------------------------------------- the device

\* a stored text that is no JSON: the record cut short
Corrupt == <<P("{"), S("id"), P(":")>>

\* what the device may hold under 'user' when the app starts
InitialItems == {NoItem, Item(JSONstringify(UserA)), Item(Corrupt), Item(<< >>)}

\* ---------------------------------------------------- ReportHazardScreen

\* the values of the Picker's items; '' is "Select hazard type..."
HazardTypes == {"Pollution", "Marine Debris", "Entangled Animal", "Vessel Issue", "Other"}

\* what the user may type as a description and as a location name
Descriptions == {<< >>, <<" ">>, <<" ", "o", "i", "l">>}
LocationNames == {<< >>, <<"p", "i", "e", "r", " ">>}

\* the positions Geolocation may report: a point at sea, and one on the equator
Positions ==
    {[latitude |-> Num(32), longitude |-> Num(-117)],
     [latitude |-> Num(0), longitude |-> Num(-30)]}

\* String.prototype.trim
RECURSIVE TrimStart(_)
TrimStart(chars) ==
    IF chars # << >> /\ Head(chars) = " " THEN TrimStart(Tail(chars)) ELSE chars

RECURSIVE TrimEnd(_)
TrimEnd(chars) ==
    IF chars # << >> /\ chars[Len(chars)] = " "
    THEN TrimEnd(SubSeq(chars, 1, Len(chars) - 1))
    ELSE chars

trim(text) == Text(TrimEnd(TrimStart(text.c)))

NoAlert == [title |-> "", message |-> Undefined]
Alert(title, message) == [title |-> title, message |-> message]

TypeError ==
    [t |-> "error", name |-> "TypeError",
     message |-> Str("ApiService.reportHazard is not a function")]

\* the component's state after its first render
useState ==
    [mounted |-> FALSE, hazardType |-> Str(""), description |-> Text(<< >>),
     locationName |-> Text(<< >>), latitude |-> Null, longitude |-> Null,
     isLoading |-> FALSE, locating |-> FALSE, currentUser |-> Null, alert |-> NoAlert]

\* the part of the state handleSubmit clears on success
Form(s) == <<s.hazardType, s.description, s.locationName, s.latitude, s.longitude>>

\* the effect runs once, on mount: loadUser calls getStoredUser and awaits it
mount ==
    /\ ~screen.mounted
    /\ screen' = [screen EXCEPT !.mounted = TRUE]
    /\ Issue(NewCall("getStoredUser", Undefined, "getStoredItem", storage))
    /\ UNCHANGED <<storage, done, lastAuth, app, weather>>

\* loadUser resumes: setCurrentUser(user), or the rejection of getStoredUser
\* leaves the state as it is
loadUser(c) ==
    /\ screen.mounted
    /\ calls[c].op = "getStoredUser" /\ calls[c].pc = "getStoredItem"
    /\ LET user == StoredUser(calls[c].read)
       IN  /\ Settle(c, [calls[c] EXCEPT !.result = user])
           /\ screen' = IF user.k = "return"
                        THEN [screen EXCEPT !.currentUser = user.v]
                        ELSE screen
    /\ UNCHANGED <<storage, issued, lastAuth, app, weather>>

setHazardType(itemValue) ==
    /\ screen.mounted
    /\ screen' = [screen EXCEPT !.hazardType = Str(itemValue)]
    /\ UNCHANGED <<storage, calls, done, issued, lastAuth, app, weather>>

setDescription(chars) ==
    /\ screen.mounted
    /\ screen' = [screen EXCEPT !.description = Text(chars)]
    /\ UNCHANGED <<storage, calls, done, issued, lastAuth, app, weather>>

setLocationName(chars) ==
    /\ screen.mounted
    /\ screen' = [screen EXCEPT !.locationName = Text(chars)]
    /\ UNCHANGED <<storage, calls, done, issued, lastAuth, app, weather>>

\* the location button (disabled while isLoading)
getCurrentLocation ==
    /\ screen.mounted /\ ~screen.isLoading
    /\ screen' = [screen EXCEPT !.isLoading = TRUE, !.locating = TRUE]
    /\ UNCHANGED <<storage, calls, done, issued, lastAuth, app, weather>>

\* Geolocation's success callback
positionSuccess(position) ==
    /\ screen.locating
    /\ screen' = [screen EXCEPT !.latitude = position.latitude,
                                !.longitude = position.longitude,
                                !.isLoading = FALSE, !.locating = FALSE,
                                !.alert = Alert("Success", Str("Location captured successfully!"))]
    /\ UNCHANGED <<storage, calls, done, issued, lastAuth, app, weather>>

\* Geolocation's error callback
positionError ==
    /\ screen.locating
    /\ screen' = [screen EXCEPT !.isLoading = FALSE, !.locating = FALSE,
                                !.alert = Alert("Error",
                                    Str("Could not get your location. Please enter manually."))]
    /\ UNCHANGED <<storage, calls, done, issued, lastAuth, app, weather>>

\* a validation that does not look at hazardType
ValidationButType(s) ==
    IF ~Truthy(trim(s.description)) THEN Str("Please provide a description.")
    ELSE IF ~Truthy(s.latitude) \/ ~Truthy(s.longitude)
         THEN Str("Please capture your location first.")
    ELSE IF ~Truthy(s.currentUser) THEN Str("You must be logged in to report a hazard.")
    ELSE Undefined

\* handleSubmit's validation: the message it alerts and returns with, or
\* undefined when the form passes
Validation(s) ==
    IF ~Truthy(s.hazardType) THEN Str("Please select a hazard type.")
    ELSE IF ~Truthy(trim(s.description)) THEN Str("Please provide a description.")
    ELSE IF ~Truthy(s.latitude) \/ ~Truthy(s.longitude)
         THEN Str("Please capture your location first.")
    ELSE IF ~Truthy(s.currentUser) THEN Str("You must be logged in to report a hazard.")
    ELSE Undefined

\* the report handleSubmit builds
hazardData(s) ==
    Obj(<<Prop("user_id", Get(s.currentUser, "id")),
          Prop("hazard_type", s.hazardType),
          Prop("description", trim(s.description)),
          Prop("location_name",
               IF Truthy(trim(s.locationName)) THEN trim(s.locationName)
               ELSE Str("Unknown Location")),
          Prop("latitude", s.latitude),
          Prop("longitude", s.longitude)>>)

\* ApiService[method](...): calling what the class does not define throws
Invoke(method) ==
    IF method \in ApiServiceMethods THEN Return(Undefined) ELSE Throw(TypeError)

\* `error.message || 'Failed to report hazard'`
SubmitError(error) ==
    IF error.t = "error" /\ Truthy(error.message) THEN error.message
    ELSE Str("Failed to report hazard")

\* the submit button (disabled while isLoading).  ApiService.reportHazard is
\* evaluated before anything is awaited, so the handler runs to its end in one
\* step: isLoading is set and reset within it
handleSubmit ==
    /\ screen.mounted /\ ~screen.isLoading
    /\ LET invalid == Validation(screen)
           called == Invoke("reportHazard")
       IN  screen' =
             IF invalid # Undefined THEN [screen EXCEPT !.alert = Alert("Error", invalid)]
             ELSE IF called.k = "throw"
                  THEN [screen EXCEPT !.alert = Alert("Error", SubmitError(called.v)),
                                      !.isLoading = FALSE]
                  ELSE [screen EXCEPT !.alert = Alert("Success", Str("Hazard reported successfully!")),
                                      !.hazardType = Str(""), !.description = Text(<< >>),
                                      !.locationName = Text(<< >>), !.latitude = Null,
                                      !.longitude = Null, !.isLoading = FALSE]
    /\ UNCHANGED <<storage, calls, done, issued, lastAuth, app, weather>>

\* --------------------------------------------------------------------- App

\* what the user may type into the fields of the login / register form
Names == {"", "ann"}
Emails == {"", "ann@sea.org"}
Passwords == {"", "pw"}

\* fetch(url, {method: 'POST', headers: {'Content-Type': 'application/json'}, body}):
\* App's own requests, which do not go through ApiService
NoFetch == [op |-> "none"]
Fetch(op, path, body) ==
    [op |-> op, method |-> "POST", url |-> Url(path, << >>), body |-> body, auth |-> NoHeader]

\* the component's state after its first render
App ==
    [isLoggedIn |-> FALSE, loggedInUser |-> Null, isLogin |-> TRUE,
     name |-> Str(""), email |-> Str(""), password |-> Str(""),
     isLoading |-> FALSE, alert |-> NoAlert, fetch |-> NoFetch]

\* `if (isLoggedIn && loggedInUser)`: App renders WeatherScreen, else the form
ShowsWeatherScreen(a) == a.isLoggedIn /\ Truthy(a.loggedInUser)

\* response.json(): the body as a value, or a throw on a body that is no JSON
\* (an empty one)
ResponseJson(resp) ==
    IF resp.data.t = "object" THEN [ok |-> TRUE, v |-> resp.data]
    ELSE [ok |-> FALSE, v |-> Undefined]

\* `Network error: ${error.message}`
NetworkErrorMessage(error) == [t |-> "string", s |-> "Network error: ", message |-> error]
FetchFailed == "Network request failed"
JsonParseError == "JSON Parse error"

\* `data.message || fallback`
MessageOr(data, fallback) ==
    IF Truthy(Get(data, "message")) THEN Get(data, "message") ELSE Str(fallback)

setName(s) ==
    /\ ~ShowsWeatherScreen(app) /\ ~app.isLogin
    /\ app' = [app EXCEPT !.name = Str(s)]
    /\ UNCHANGED <<storage, calls, done, issued, lastAuth, screen, weather>>

setEmail(s) ==
    /\ ~ShowsWeatherScreen(app)
    /\ app' = [app EXCEPT !.email = Str(s)]
    /\ UNCHANGED <<storage, calls, done, issued, lastAuth, screen, weather>>

setPassword(s) ==
    /\ ~ShowsWeatherScreen(app)
    /\ app' = [app EXCEPT !.password = Str(s)]
    /\ UNCHANGED <<storage, calls, done, issued, lastAuth, screen, weather>>

switchToLogin ==
    /\ ~ShowsWeatherScreen(app)
    /\ app' = [app EXCEPT !.isLogin = TRUE]
    /\ UNCHANGED <<storage, calls, done, issued, lastAuth, screen, weather>>

switchToRegister ==
    /\ ~ShowsWeatherScreen(app)
    /\ app' = [app EXCEPT !.isLogin = FALSE]
    /\ UNCHANGED <<storage, calls, done, issued, lastAuth, screen, weather>>

\* the form's button on the Register tab (disabled while isLoading)
handleRegister ==
    /\ ~ShowsWeatherScreen(app) /\ ~app.isLogin /\ ~app.isLoading
    /\ app' =
         IF ~Truthy(app.name) \/ ~Truthy(app.email) \/ ~Truthy(app.password)
         THEN [app EXCEPT !.alert = Alert("Error", Str("Please fill all fields for registration."))]
         ELSE [app EXCEPT !.isLoading = TRUE,
                          !.fetch = Fetch("register", "/auth/register",
                                          JSONstringify(Obj(<<Prop("name", app.name),
                                                              Prop("email", app.email),
                                                              Prop("password", app.password)>>)))]
    /\ UNCHANGED <<storage, calls, done, issued, lastAuth, screen, weather>>

\* handleRegister resumes with the response, or with the failure of fetch
handleRegisterResume ==
    /\ app.fetch.op = "register"
    /\ \E resp \in RegisterResponses :
         LET data == ResponseJson(resp)
         IN  app' =
               IF resp = NetworkError
               THEN [app EXCEPT !.alert = Alert("Error", NetworkErrorMessage(FetchFailed)),
                                !.isLoading = FALSE, !.fetch = NoFetch]
               ELSE IF ~data.ok
               THEN [app EXCEPT !.alert = Alert("Error", NetworkErrorMessage(JsonParseError)),
                                !.isLoading = FALSE, !.fetch = NoFetch]
               ELSE IF Is2xx(resp)
               THEN [app EXCEPT !.alert = Alert("Success", Get(data.v, "message")),
                                !.name = Str(""), !.email = Str(""), !.password = Str(""),
                                !.isLogin = TRUE, !.isLoading = FALSE, !.fetch = NoFetch]
               ELSE [app EXCEPT !.alert = Alert("Error", MessageOr(data.v, "Registration failed")),
                                !.isLoading = FALSE, !.fetch = NoFetch]
    /\ UNCHANGED <<storage, calls, done, issued, lastAuth, screen, weather>>

\* the form's button on the Login tab (disabled while isLoading)
handleLogin ==
    /\ ~ShowsWeatherScreen(app) /\ app.isLogin /\ ~app.isLoading
    /\ app' =
         IF ~Truthy(app.email) \/ ~Truthy(app.password)
         THEN [app EXCEPT !.alert = Alert("Error", Str("Please fill all fields for login."))]
         ELSE [app EXCEPT !.isLoading = TRUE,
                          !.fetch = Fetch("login", "/auth/login",
                                          JSONstringify(Obj(<<Prop("email", app.email),
                                                              Prop("password", app.password)>>)))]
    /\ UNCHANGED <<storage, calls, done, issued, lastAuth, screen, weather>>

\* handleLogin resumes with the response, or with the failure of fetch: on
\* `response.ok && data.user` it sets loggedInUser and isLoggedIn, and nothing else
handleLoginResume ==
    /\ app.fetch.op = "login"
    /\ \E resp \in LoginResponses :
         LET data == ResponseJson(resp)
         IN  app' =
               IF resp = NetworkError
               THEN [app EXCEPT !.alert = Alert("Error", NetworkErrorMessage(FetchFailed)),
                                !.isLoading = FALSE, !.fetch = NoFetch]
               ELSE IF ~data.ok
               THEN [app EXCEPT !.alert = Alert("Error", NetworkErrorMessage(JsonParseError)),
                                !.isLoading = FALSE, !.fetch = NoFetch]
               ELSE IF Is2xx(resp) /\ Truthy(Get(data.v, "user"))
               THEN [app EXCEPT !.loggedInUser = Get(data.v, "user"), !.isLoggedIn = TRUE,
                                !.isLoading = FALSE, !.fetch = NoFetch]
               ELSE [app EXCEPT !.alert = Alert("Error", MessageOr(data.v, "Login failed")),
                                !.isLoading = FALSE, !.fetch = NoFetch]
    /\ UNCHANGED <<storage, calls, done, issued, lastAuth, screen, weather>>

\* ----------------------------------------------------------- WeatherScreen

MaxLocating == 1    \* position requests of one screen that have not called back

\* the component's state after its first render
WeatherScreen ==
    [mounted |-> FALSE, weatherData |-> Null, loading |-> TRUE,
     searchQuery |-> Text(<< >>), error |-> Null, alert |-> NoAlert,
     locating |-> 0, group |-> 0]

\* what the user may type into the search field
SearchQueries == {<<" ">>, <<"A">>, <<" ", "B">>}

\* 'San Diego, CA'
DefaultLocation == <<"S", "a", "n", " ", "D", "i", "e", "g", "o", ",", " ", "C", "A">>

\* the position Geolocation may report
Coords == {[latitude |-> 32, longitude |-> -117]}

\* a number in a template literal
Digits == <<"0", "1", "2", "3", "4", "5", "6", "7", "8", "9">>
RECURSIVE NumberToString(_)
NumberToString(n) ==
    IF n < 0 THEN <<"-">> \o NumberToString(-n)
    ELSE IF n < 10 THEN <<Digits[n + 1]>>
    ELSE NumberToString(n \div 10) \o <<Digits[(n % 10) + 1]>>

\* a getWeather call made by a WeatherScreen; live: the screen is still mounted
ScreenCall(query, live) ==
    NewCall("getWeather", query, "getItem", storage) @@ [live |-> live]

\* the calls of the mounted screen that have not settled
InFlight(cs) == {c \in 1..Len(cs) : cs[c].live}

\* fetchWeather(query), up to its await.  group counts the fetches that have
\* completed since the screen last started one with none in flight
fetchWeather(query) ==
    /\ Issue(ScreenCall(query, TRUE))
    /\ weather' = [weather EXCEPT !.mounted = TRUE, !.loading = TRUE,
                                  !.weatherData = Null, !.error = Null,
                                  !.group = IF InFlight(calls) = {} THEN 0 ELSE @]

\* the effect runs once, on mount: fetchWeather('San Diego, CA')
useEffect ==
    /\ ShowsWeatherScreen(app) /\ ~weather.mounted
    /\ fetchWeather(Text(DefaultLocation))
    /\ UNCHANGED <<storage, done, lastAuth, screen, app>>

setSearchQuery(chars) ==
    /\ weather.mounted
    /\ weather' = [weather EXCEPT !.searchQuery = Text(chars)]
    /\ UNCHANGED <<storage, calls, done, issued, lastAuth, screen, app>>

\* the Search button: `if (searchQuery.trim())`
handleSearch ==
    /\ weather.mounted /\ Truthy(trim(weather.searchQuery))
    /\ fetchWeather(trim(weather.searchQuery))
    /\ UNCHANGED <<storage, done, lastAuth, screen, app>>

\* the "Use My Location" button: the permission request is granted, denied or
\* fails; granted, getCurrentPosition is called
handleCurrentLocation(granted) ==
    /\ weather.mounted
    /\ IF granted = "granted"
       THEN /\ weather.locating < MaxLocating
            /\ weather' = [weather EXCEPT !.loading = TRUE, !.locating = @ + 1]
       ELSE weather' = [weather EXCEPT !.error =
                           IF granted = "denied" THEN Str("Location permission denied.")
                           ELSE Str("Error requesting location permission.")]
    /\ UNCHANGED <<storage, calls, done, issued, lastAuth, screen, app>>

\* getCurrentPosition's success callback: fetchWeather(`${latitude},${longitude}`)
weatherPosition(coords) ==
    /\ weather.locating > 0
    /\ Issue(ScreenCall(Text(NumberToString(coords.latitude) \o <<",">>
                             \o NumberToString(coords.longitude)), TRUE))
    /\ weather' = [weather EXCEPT !.locating = @ - 1, !.loading = TRUE,
                                  !.weatherData = Null, !.error = Null,
                                  !.group = IF InFlight(calls) = {} THEN 0 ELSE @]
    /\ UNCHANGED <<storage, done, lastAuth, screen, app>>

\* getCurrentPosition's error callback
geoError ==
    /\ weather.locating > 0
    /\ weather' = [weather EXCEPT !.locating = @ - 1, !.loading = FALSE,
                      !.error = Str("Failed to get current location. Please enable GPS.")]
    /\ UNCHANGED <<storage, calls, done, issued, lastAuth, screen, app>>

\* the interceptor of a screen's call resumes and the request goes out
fetchWeatherRequest(c) ==
    /\ calls[c].pc = "getItem" /\ Authorization(calls[c].read).ok
    /\ interceptor(c)

\* `err.message || 'Failed to fetch weather data. Is the PHP server running?'`
ErrorMessage(err) ==
    IF Truthy(Get(err, "message")) THEN Get(err, "message")
    ELSE Str("Failed to fetch weather data. Is the PHP server running?")

\* fetchWeather from its await on: setWeatherData(data), or setError and the
\* alert, and finally setLoading(false)
Resumed(w, result) ==
    IF result.k = "return"
    THEN [w EXCEPT !.weatherData = result.v, !.loading = FALSE, !.group = @ + 1]
    ELSE [w EXCEPT !.error = ErrorMessage(result.v),
                   !.alert = Alert("Error", ErrorMessage(result.v)),
                   !.loading = FALSE, !.group = @ + 1]

\* getWeather settles, with the response to its request or with the throw of
\* its interceptor, and fetchWeather resumes (on an unmounted screen its
\* updates are dropped)
fetchWeatherResume(c) ==
    /\ \/ calls[c].pc = "request"
       \/ calls[c].pc = "getItem" /\ ~Authorization(calls[c].read).ok
    /\ \E resp \in (IF calls[c].pc = "request" THEN Arrivals(c) ELSE {NoResponse}) :
         LET result == IF calls[c].pc = "request" THEN Outcome("getWeather", resp)
                       ELSE Throw(Fallback("getWeather"))
         IN  /\ Settle(c, [calls[c] EXCEPT !.resp = resp, !.sentAt = NoItem,
                                          !.read = NoItem, !.result = result])
             /\ weather' = IF calls[c].live THEN Resumed(weather, result) ELSE weather
    /\ UNCHANGED <<storage, issued, lastAuth, screen, app>>

\* the Logout button of WeatherScreen (onLogout): App goes back to the form
\* and the screen is unmounted, its calls under way left to settle
handleLogout ==
    /\ weather.mounted
    /\ app' = [app EXCEPT !.loggedInUser = Null, !.isLoggedIn = FALSE,
                          !.email = Str(""), !.password = Str("")]
    /\ weather' = WeatherScreen
    /\ calls' = [c \in 1..Len(calls) |-> [calls[c] EXCEPT !.live = FALSE]]
    /\ UNCHANGED <<storage, done, issued, lastAuth, screen>>

Init ==
    /\ storage \in InitialItems
    /\ calls = << >>
    /\ done = NoCall
    /\ issued = 0
    /\ lastAuth = NoAuth
    /\ screen = useState
    /\ app = App
    /\ weather = WeatherScreen

Next ==
    \/ \E credentials \in Credentials : login(credentials)
    \/ \E userData \in UserData : register(userData)
    \/ \E query \in Queries : getWeather(query)
    \/ logout
    \/ getStoredUser
    \/ \E c \in 1..Len(calls) : interceptor(c)
    \/ \E c \in 1..Len(calls) : loginResume(c)
    \/ \E c \in 1..Len(calls) : loginReturn(c)
    \/ \E c \in 1..Len(calls) : registerResume(c)
    \/ \E c \in 1..Len(calls) : getWeatherResume(c)
    \/ \E c \in 1..Len(calls) : logoutReturn(c)
    \/ \E c \in 1..Len(calls) : getStoredUserReturn(c)

Spec == Init /\ [][Next]_vars

\* the hazard report form on its own: the screen, its user and the location service
ScreenNext ==
    \/ mount
    \/ \E c \in 1..Len(calls) : loadUser(c)
    \/ \E itemValue \in HazardTypes \cup {""} : setHazardType(itemValue)
    \/ \E chars \in Descriptions : setDescription(chars)
    \/ \E chars \in LocationNames : setLocationName(chars)
    \/ getCurrentLocation
    \/ \E position \in Positions : positionSuccess(position)
    \/ positionError
    \/ handleSubmit

ScreenSpec == Init /\ [][ScreenNext]_vars

\* the app: the login / register form, and the WeatherScreen it shows to a
\* logged-in user, with its default fetch
AppNext ==
    \/ \E s \in Names : setName(s)
    \/ \E s \in Emails : setEmail(s)
    \/ \E s \in Passwords : setPassword(s)
    \/ switchToLogin
    \/ switchToRegister
    \/ handleRegister
    \/ handleRegisterResume
    \/ handleLogin
    \/ handleLoginResume
    \/ handleLogout
    \/ useEffect
    \/ \E c \in 1..Len(calls) : fetchWeatherRequest(c)
    \/ \E c \in 1..Len(calls) : fetchWeatherResume(c)

AppSpec == Init /\ [][AppNext]_vars

\* WeatherScreen as App renders it: to user A, who has logged in
WeatherInit ==
    /\ storage \in InitialItems
    /\ calls = << >>
    /\ done = NoCall
    /\ issued = 0
    /\ lastAuth = NoAuth
    /\ screen = useState
    /\ app = [App EXCEPT !.isLoggedIn = TRUE, !.loggedInUser = UserA,
                         !.email = Str("ann@sea.org"), !.password = Str("pw")]
    /\ weather = WeatherScreen

\* the screen on its own: its searches and its use of the device's position
WeatherNext ==
    \/ useEffect
    \/ \E chars \in SearchQueries : setSearchQuery(chars)
    \/ handleSearch
    \/ \E granted \in {"granted", "denied", "error"} : handleCurrentLocation(granted)
    \/ \E coords \in Coords : weatherPosition(coords)
    \/ geoError
    \/ \E c \in 1..Len(calls) : fetchWeatherRequest(c)
    \/ \E c \in 1..Len(calls) : fetchWeatherResume(c)

WeatherSpec == WeatherInit /\ [][WeatherNext]_vars

\* ------------------------------------------------------------ properties

\* the calls under way and the call that settled last
Known == {calls[c] : c \in 1..Len(calls)} \cup {done}

\* C1: a request (of login, register or getWeather) issued when the last write
\* of the session was a login's is sent with Authorization: Bearer <the token of
\* the user that login was answered with>; one issued when the last write was a
\* logout's is sent with no Authorization header.
C1_BearerFollowsSession ==
    \A call \in Known :
        (call.op \in RequestOps /\ call.pc # "getItem" /\ call.ctx.k # "none") =>
            /\ call.req # NoRequest
            /\ call.req.auth = IF call.ctx.k = "login"
                               THEN Bearer(Get(call.ctx.user, "token"))
                               ELSE NoHeader

\* a login that replaced user A's session by user B's has returned, and a
\* getWeather issued after it went out with user B's token
C1_Witness ==
    /\ done.op = "getWeather"
    /\ done.ctx = LoggedIn(UserB, Item(JSONstringify(UserA)))
    /\ done.req.auth = Bearer(Str("tokB"))
    /\ \A c \in 1..Len(calls) : calls[c].op # "login"

\* C2: getStoredUser issued when the last write of the session was a login's
\* returns the user object that login was answered with, whatever the login
\* overwrote.
C2_StoredUserIsLoginUser ==
    (done.op = "getStoredUser" /\ done.ctx.k = "login") =>
        done.result = Return(done.ctx.user)

\* getStoredUser returned the user of a login that overwrote another user's
\* session
C2_Witness ==
    /\ done.op = "getStoredUser"
    /\ done.ctx = LoggedIn(UserB, Item(JSONstringify(UserA)))
    /\ done.result = Return(UserB)

\* C3: getStoredUser issued when the last write of the session was a logout's
\* returns null, whatever the logout removed.
C3_NullAfterLogout ==
    (done.op = "getStoredUser" /\ done.ctx.k = "logout") => done.result = Return(Null)

\* getStoredUser returned null after a logout that removed malformed data
C3_Witness ==
    /\ done.op = "getStoredUser"
    /\ done.ctx = LoggedOut(Item(Corrupt))
    /\ done.result = Return(Null)

\* the item holds a session: the JSON text of an object
SessionPersisted(item) ==
    /\ TruthyItem(item)
    /\ JSONparse(item.text).ok
    /\ JSONparse(item.text).v.t = "object"

\* C4: a request is sent with the bearer token iff a session is persisted when
\* it is sent, and with no session persisted the request is still sent, with no
\* Authorization header (sentAt is the stored item as the interceptor resumes).
C4_TokenIffSession ==
    \A call \in Known :
        (call.op \in RequestOps /\ (call.pc = "request" \/ call.req = NoRequest)
            /\ call.pc # "getItem") =>
            /\ call.req # NoRequest =>
                  (call.req.auth # NoHeader <=> SessionPersisted(call.sentAt))
            /\ ~SessionPersisted(call.sentAt) =>
                  (call.req # NoRequest /\ call.req.auth = NoHeader)

\* C5: getStoredUser never throws: it returns the stored session when the item
\* is well-formed, and null when nothing is stored or the item is malformed.
C5_StoredUserNeverThrows ==
    done.op = "getStoredUser" =>
        done.result = IF TruthyItem(done.read) /\ JSONparse(done.read.text).ok
                      THEN Return(JSONparse(done.read.text).v)
                      ELSE Return(Null)

\* the response is a 2xx whose body holds a user object
HasUser(resp) == Is2xx(resp) /\ Get(resp.data, "user").t = "object"

\* C6: a login answered with a non-2xx status or with a 2xx body without a user
\* object throws and persists nothing; a login that returns was answered with a
\* user, and has written that user's session.
C6_LoginFailsWithoutUser ==
    (done.op = "login" /\ done.req # NoRequest) =>
        /\ ~HasUser(done.resp) => (done.result.k = "throw" /\ done.saved = NoItem)
        /\ done.result.k = "return" =>
              /\ HasUser(done.resp)
              /\ done.saved = Item(JSONstringify(Get(done.resp.data, "user")))

\* C7: every step of register, of getWeather and of getStoredUser leaves the item
\* under 'user' as it was.
C7_OnlyLoginLogoutWrite ==
    [][((\E userData \in UserData : register(userData))
        \/ (\E query \in Queries : getWeather(query))
        \/ getStoredUser
        \/ (\E c \in 1..Len(calls) :
               \/ interceptor(c) /\ calls[c].op \in {"register", "getWeather"}
               \/ registerResume(c)
               \/ getWeatherResume(c)
               \/ getStoredUserReturn(c)))
       => storage' = storage]_vars

\* a register answered 2xx has returned and nothing is stored
C7_Witness ==
    /\ done.op = "register" /\ Is2xx(done.resp) /\ done.result = Return(done.resp.data)
    /\ storage = NoItem /\ lastAuth = NoAuth

\* the messages handleSubmit rejects a form with
RequiredMessages ==
    {Str("Please select a hazard type."), Str("Please provide a description."),
     Str("Please capture your location first."),
     Str("You must be logged in to report a hazard.")}

\* a required field of the form is missing
Missing(s) ==
    \/ s.hazardType = Str("")
    \/ trim(s.description) = Text(<< >>)
    \/ s.latitude = Null \/ s.longitude = Null
    \/ s.currentUser = Null

\* C8: handleSubmit on a form without hazardType (or without description,
\* coordinates or user) alerts the error of a required field and does nothing
\* else: it issues no call, hence no request, and leaves the form as it is.
C8_RejectedBeforeAnyCall ==
    [][(handleSubmit /\ Missing(screen)) =>
         /\ screen'.alert.title = "Error"
         /\ screen'.alert.message \in RequiredMessages
         /\ (screen.hazardType = Str("") =>
                screen'.alert.message = Str("Please select a hazard type."))
         /\ Form(screen') = Form(screen)
         /\ ~screen'.isLoading
         /\ calls' = calls /\ issued' = issued /\ done' = done]_vars

\* a form complete but for its hazardType was submitted and rejected
C8_Witness ==
    /\ screen.alert = Alert("Error", Str("Please select a hazard type."))
    /\ screen.hazardType = Str("")
    /\ trim(screen.description) # Text(<< >>)
    /\ screen.latitude = Num(32) /\ screen.longitude = Num(-117)
    /\ screen.currentUser = UserA
    /\ calls = << >>

\* the form holds every required field (a position on the equator or on the
\* prime meridian, which the validation takes for a missing one, is set aside)
Complete(s) ==
    /\ s.hazardType.s \in HazardTypes
    /\ trim(s.description) # Text(<< >>)
    /\ s.latitude \notin {Null, Num(0)} /\ s.longitude \notin {Null, Num(0)}
    /\ s.currentUser.t = "object"

\* the requests to POST /hazards/report among the calls under way
HazardPosts(cs) ==
    {c \in 1..Len(cs) : cs[c].req.method = "POST" /\ cs[c].req.url.path = "/hazards/report"}

\* C9: handleSubmit on a complete form sends one POST /hazards/report with the
\* report as its body, and alerts no error.
C9_CompleteReportIsPosted ==
    [][(handleSubmit /\ Complete(screen)) =>
         /\ \E c \in HazardPosts(calls') : calls'[c].req.body = hazardData(screen)
         /\ Cardinality(HazardPosts(calls')) = Cardinality(HazardPosts(calls)) + 1
         /\ screen'.alert.title # "Error"]_vars

\* how a getWeather call ends on a response: resolved with the body of a 2xx,
\* failed with the body of an error response
OwnOutcome(resp) == IF Is2xx(resp) THEN Return(resp.data) ELSE Throw(resp.data)

\* C10: a getWeather call that got a response ends with the backend's response to
\* its own query, whatever other getWeather calls are under way and whichever
\* settles first.
C10_OwnResponse ==
    (done.op = "getWeather" /\ done.resp.status > 0) =>
        /\ done.resp \in WeatherResponses(done.arg.c)
        /\ done.result = OwnOutcome(done.resp)

\* getWeather("B") has resolved with the weather at B while the request of
\* getWeather("A") still awaits its response
C10_Witness ==
    /\ done.op = "getWeather" /\ done.arg = Text(<<"B">>)
    /\ Is2xx(done.resp) /\ Get(done.result.v, "location") = Text(<<"B">>)
    /\ \E c \in 1..Len(calls) :
          /\ calls[c].op = "getWeather" /\ calls[c].arg = Text(<<"A">>)
          /\ calls[c].pc = "request"

\* the generic message of each operation
GenericMessage(op) ==
    CASE op = "login" -> "Login failed"
      [] op = "register" -> "Registration failed"
      [] op = "getWeather" -> "Failed to fetch weather"

\* the server answered with an error status and a body
SentErrorBody(resp) ==
    resp.status > 0 /\ ~Is2xx(resp) /\ resp.data \notin {Undefined, Null, Str("")}

\* the response call c takes up in the step: the one it keeps when it goes on,
\* the one it settles with when it ends
Taken(c) == IF Len(calls') = Len(calls) THEN calls'[c].resp ELSE done'.resp

\* the step is call c failing: its interceptor resumes and the request does not
\* go out, or its await of this.api settles with anything but a 2xx response
Failed(c) ==
    \/ interceptor(c) /\ ~(Len(calls') = Len(calls) /\ calls'[c].pc = "request")
    \/ /\ loginResume(c) \/ registerResume(c) \/ getWeatherResume(c)
       /\ ~Is2xx(Taken(c))

\* C11: a login, register or getWeather call that fails (an error status, no
\* response, or nothing sent) ends in that very step by throwing: the body of
\* the error response unchanged when the server sent one, otherwise
\* {message: <the operation's generic message>}.  The call is not kept under
\* way and no further call is issued for it.
C11_FailureIsThrown ==
    [][\A c \in 1..Len(calls) :
          Failed(c) =>
             /\ calls' = Remove(c)
             /\ issued' = issued
             /\ done'.op = calls[c].op /\ done'.arg = calls[c].arg
             /\ done'.result =
                   Throw(IF SentErrorBody(done'.resp) THEN done'.resp.data
                         ELSE Obj(<<Prop("message", Str(GenericMessage(done'.op)))>>))]_vars

\* a register answered 422 has thrown the body of that response, while a
\* getWeather call is still under way
C11_Witness ==
    /\ done.op = "register" /\ done.resp.status = 422
    /\ done.result = Throw(Obj(<<Prop("message", Str("Email already in use"))>>))
    /\ \E c \in 1..Len(calls) : calls[c].op = "getWeather" /\ calls[c].pc = "request"

\* C12: when handleLogin succeeds and App shows WeatherScreen, the session of
\* the user it logged in is persisted under 'user'; the requests that screen
\* makes go out with that user's bearer token; and when handleLogout has
\* returned App to the form, no session is persisted.
C12_SessionFollowsApp ==
    [][/\ (handleLoginResume /\ ShowsWeatherScreen(app')) =>
            storage' = Item(JSONstringify(app'.loggedInUser))
       /\ \A c \in 1..Len(calls) :
            (fetchWeatherRequest(c) /\ calls[c].live) =>
                calls'[c].req.auth = Bearer(Get(app.loggedInUser, "token"))
       /\ handleLogout => ~SessionPersisted(storage')]_vars

\* the messages WeatherScreen shows for a position it could not get
LocationErrors ==
    {Str("Location permission denied."), Str("Error requesting location permission."),
     Str("Failed to get current location. Please enable GPS.")}

\* C13: when a fetch completes while another fetch of the screen is still in
\* flight, loading stays true; and when the last of two or more overlapping
\* fetches completes, the screen shows that last response alone: its payload and
\* no error if it succeeded, its message and no payload if it failed (an error
\* shown for the device's position, which no fetch has set, is set aside).
C13_LastResponseWins ==
    [][\A c \in 1..Len(calls) :
          fetchWeatherResume(c) =>
             /\ InFlight(calls') # {} => weather'.loading
             /\ (InFlight(calls') = {} /\ weather'.group >= 2
                     /\ weather'.error \notin LocationErrors) =>
                   IF done'.result.k = "return"
                   THEN weather'.weatherData = done'.result.v /\ weather'.error = Null
                   ELSE /\ weather'.error = Get(done'.result.v, "message")
                        /\ weather'.weatherData = Null]_vars

\* the item holds the session of a user with a token
TokenOf(item) == Get(JSONparse(item.text).v, "token")

\* C14: no step of a login that fails (its call, its interceptor, its taking up
\* an error response or a transport failure) changes the item under 'user'; a
\* request issued once a login has failed has its interceptor read that item,
\* and an interceptor that read the session of a user sends the request with
\* that user's bearer token.
C14_FailedLoginKeepsSession ==
    [][/\ (\E credentials \in Credentials : login(credentials)) => storage' = storage
       /\ \A c \in 1..Len(calls) :
            (calls[c].op = "login" /\ (interceptor(c) \/ Failed(c))) => storage' = storage
       /\ (done.op = "login" /\ done.result.k = "throw" /\ Len(calls') = Len(calls) + 1
              /\ calls'[Len(calls')].op \in RequestOps) =>
            calls'[Len(calls')].read = storage
       /\ \A c \in 1..Len(calls) :
            (interceptor(c) /\ SessionPersisted(calls[c].read)
                /\ Truthy(TokenOf(calls[c].read))) =>
               /\ Len(calls') = Len(calls)
               /\ calls'[c].req.auth = Bearer(TokenOf(calls[c].read))]_vars

\* a login called when user B's session was stored has been refused, the session
\* is still stored, and a getWeather request is out with user B's token
C14_Witness ==
    /\ done.op = "login" /\ done.resp.status = 401 /\ done.result.k = "throw"
    /\ done.ctx = LoggedIn(UserB, Item(JSONstringify(UserA)))
    /\ storage = Item(JSONstringify(UserB))
    /\ \E c \in 1..Len(calls) :
          /\ calls[c].op = "getWeather" /\ calls[c].pc = "request"
          /\ calls[c].req.auth = Bearer(Str("tokB"))

====
